---- MODULE Spec2Model ----
(***************************************************************************)
(* Model of app/main.py: the "LB Probe API".  Two routes are registered on *)
(* the FastAPI application: GET /healthz (healthz) and GET / (root).  root *)
(* awaits imds_get four times; every await of client.put / client.get is a *)
(* suspension point, so a request is a small process whose steps are the   *)
(* resolutions of those awaits.  Python strings are modelled as sequences  *)
(* of tokens (a token is a whitespace character or a run of other          *)
(* characters), so that str.strip() and truthiness are computed.           *)
(***************************************************************************)
EXTENDS Integers, Sequences, FiniteSets, TLC

\* ------------------------------------------------------------------ bounds
\* Longest response body (in tokens) the metadata service returns.
MaxBodyLen == 2
\* Number of requests in flight at once in the concurrent scenario.
NumRequests == 2

\* ------------------------------------------------------------------ values
\* Python None, JSON null, a header that is not present.
None == <<"None">>
\* A Python str holding one non-whitespace run.
Str(x) == <<x>>
\* bool(v) for v : str | None.
Truthy(v) == v # None /\ v # <<>>
\* The expression  a or b .
OrElse(a, b) == IF Truthy(a) THEN a ELSE b

Whitespace == {" "}
Chars == {" ", "a"}
Bodies == UNION {[1..n -> Chars] : n \in 0..MaxBodyLen}

RECURSIVE LStrip(_)
LStrip(s) == IF s # <<>> /\ Head(s) \in Whitespace THEN LStrip(Tail(s)) ELSE s
RECURSIVE RStrip(_)
RStrip(s) ==
    IF s # <<>> /\ s[Len(s)] \in Whitespace
    THEN RStrip(SubSeq(s, 1, Len(s) - 1))
    ELSE s
\* str.strip()
Strip(s) == RStrip(LStrip(s))

\* ------------------------------------------------- outcomes of awaited calls
Response(status, text) ==
    [kind |-> "response", status |-> status, text |-> text, exc |-> "-"]
Raise(e) ==
    [kind |-> "exception", status |-> 0, text |-> <<>>, exc |-> e]
\* No call was made.
NotIssued == [kind |-> "none", status |-> 0, text |-> <<>>, exc |-> "-"]

\* httpx.HTTPError and its subclasses (timeouts, connection and protocol errors).
HTTPErrors == {"ConnectTimeout", "ConnectError"}
\* Exception subclasses: the httpx ones and any other (RuntimeError stands for them).
Exceptions == HTTPErrors \cup {"RuntimeError"}
ErrorStatuses == {401, 404}

\* What the network and the metadata service can answer to one call, by
\* deployment: outside AWS 169.254.169.254 does not answer, on a healthy EC2
\* instance every call is answered 200, and "unknown" is any behaviour.
Outcomes(dep) ==
    CASE dep = "outside_aws" -> {Raise("ConnectTimeout")}
      [] dep = "ec2" -> {Response(200, <<"a">>)}
      [] OTHER -> {Response(200, b) : b \in Bodies}
                  \cup {Response(s, <<>>) : s \in ErrorStatuses}
                  \cup {Raise(e) : e \in Exceptions}
Deployments == {"outside_aws", "ec2", "unknown"}

\* ------------------------------------------------------------------ imds_get
\* except httpx.HTTPError (inner try, around the token PUT)
InnerCatchesTimeoutOnly(e) == e = "ConnectTimeout"
InnerCatches(e) == e \in HTTPErrors
\* except Exception (outer try)
OuterCatches(e) == e \in Exceptions

\* tok after the token PUT resolved with outcome o, when control stays in the
\* inner try or its handler.
TokenOf(o) ==
    IF o.kind = "response" /\ o.status = 200 THEN Strip(o.text) ELSE None

\* Where control goes after the token PUT: on to the GET, out through the
\* outer handler (return None), or out of imds_get with the exception.
AfterPut(o) ==
    IF o.kind = "response" THEN "get"
    ELSE IF InnerCatches(o.exc) THEN "get"
    ELSE IF OuterCatches(o.exc) THEN "return"
    ELSE "raise"

\* headers = {"X-aws-ec2-metadata-token": tok} if tok else {} ; None is no header.
TokenHeaders(tok) == IF Truthy(tok) THEN tok ELSE None

\* The value imds_get returns once the GET resolved with outcome o
\* ("Raised" when the exception leaves imds_get).
Raised == <<"Raised">>
ImdsGetResultUntrimmed(o) ==
    IF o.kind = "response"
    THEN IF o.status = 200 THEN o.text ELSE None
    ELSE IF OuterCatches(o.exc) THEN None ELSE Raised
ImdsGetResult(o) ==
    IF o.kind = "response"
    THEN IF o.status = 200 THEN Strip(o.text) ELSE None
    ELSE IF OuterCatches(o.exc) THEN None ELSE Raised

\* --------------------------------------------------- get_private_ip_fallback
\* socket.gethostname() / socket.gethostbyname(): an address or an exception.
Returned(v) == [kind |-> "value", status |-> 0, text |-> v, exc |-> "-"]
ResolverOutcomes == {Returned(Str("10.0.0.5")), Raise("gaierror")}
get_private_ip_fallback(o) ==
    IF o.kind = "value" THEN o.text ELSE Str("desconhecido")
\* private_ip = await imds_get("local-ipv4") or get_private_ip_fallback():
\* the right operand is evaluated only when the left one is falsy.
UsesFallbackOnNoneOnly(v) == v = None
UsesFallback(v) == ~Truthy(v)

\* ------------------------------------------------------------------- routing
\* @app.get("/healthz") and @app.get("/"): each route is registered for GET
\* only; a known path with another method is answered 405 by the framework
\* and an unknown path 404, in both cases without entering a handler.
RouteAnyMethod(method, path) ==
    IF path = Str("/healthz") THEN "healthz"
    ELSE IF path = Str("/") THEN "root"
    ELSE "404"
Route(method, path) ==
    IF path = Str("/healthz")
    THEN IF method = Str("GET") THEN "healthz" ELSE "405"
    ELSE IF path = Str("/")
    THEN IF method = Str("GET") THEN "root" ELSE "405"
    ELSE "404"

\* ------------------------------------------------------------------ requests
\* A request as the handler sees it: request.method, request.url.path, the
\* three forwarded headers and the Host header (None when not sent, <<>> when
\* sent empty), request.client.host (None when request.client is None),
\* request.url.hostname and request.url.scheme.
HeaderVals(v) == {None, <<>>, Str(v)}
PlainRequests ==
    [method : {Str("GET"), Str("POST")},
     path : {Str("/"), Str("/healthz"), Str("/x")},
     xff : {None}, xfh : {None}, xfp : {None},
     hostHdr : {Str("h.example")},
     client : {Str("9.9.9.9")},
     urlHostname : {Str("h.example")},
     urlScheme : {Str("http")}]
ProxiedRequests ==
    [method : {Str("GET"), Str("POST")},
     path : {Str("/"), Str("/healthz"), Str("/x")},
     xff : HeaderVals("1.2.3.4"),
     xfh : HeaderVals("lb.example"),
     xfp : HeaderVals("https"),
     hostHdr : HeaderVals("h.example"),
     client : {None, Str("9.9.9.9")},
     urlHostname : {None, Str("srv")},
     urlScheme : {Str("http"), Str("ws")}]
Quiet ==
    [method |-> Str("GET"), path |-> Str("/healthz"),
     xff |-> None, xfh |-> None, xfp |-> None,
     hostHdr |-> Str("h.example"), client |-> Str("9.9.9.9"),
     urlHostname |-> Str("h.example"), urlScheme |-> Str("http")]

\* host = headers.get("x-forwarded-host") or headers.get("host") or url.hostname
HostIgnoringForwarded(req) == OrElse(req.hostHdr, req.urlHostname)
Host(req) == OrElse(req.xfh, OrElse(req.hostHdr, req.urlHostname))
\* scheme = headers.get("x-forwarded-proto") or url.scheme
Scheme(req) == OrElse(req.xfp, req.urlScheme)
\* headers.get("x-forwarded-for") or (client.host if client else None)
IpClientePeerFirst(req) == OrElse(req.client, req.xff)
IpCliente(req) == OrElse(req.xff, req.client)

\* ---------------------------------------------------------------- timestamps
\* Time is counted in whole hours since an epoch.  datetime.utcnow() is a
\* NAIVE datetime holding the UTC wall clock; naive.astimezone(tz) takes the
\* naive value as the host's LOCAL time (offset local) and converts it.
\* root reads the clock twice, once per field, with no suspension in between;
\* at this resolution both reads give the same hour.
BrtOffset == -3
utcnow(now) == now
Astimezone(naive, local, off) == (naive - local) + off
\* .isoformat() + "Z"
Isoformat(h) == [day |-> h \div 24, hour |-> h % 24, suffix |-> "Z"]
\* .strftime("%d/%m/%Y %I:%M:%S %p UTC-3")
Strftime(h) ==
    [day |-> h \div 24,
     hour12 |-> IF h % 12 = 0 THEN 12 ELSE h % 12,
     ampm |-> IF h % 24 < 12 THEN "AM" ELSE "PM",
     suffix |-> "UTC-3"]
ServerTimeUtc(now) == Isoformat(utcnow(now))
ServerTimeBrt(now, local) == Strftime(Astimezone(utcnow(now), local, BrtOffset))

Clocks == {26, 37, 49}
LocalOffsets == {-3, 0, 1}

\* ------------------------------------------------------------------ responses
NoTime == [day |-> 0, hour |-> 0, suffix |-> "-"]
NoTimeBrt == [day |-> 0, hour12 |-> 0, ampm |-> "-", suffix |-> "-"]
NoPayload ==
    [ok |-> FALSE, mensagem |-> None,
     acesso |-> [dns_usado |-> None, esquema |-> None, metodo |-> None,
                 path |-> None, ip_cliente |-> None],
     instancia |-> [ip_publico_vm |-> None, ip_privado_vm |-> None,
                    instance_id |-> None, availability_zone |-> None],
     server_time_utc |-> NoTime, server_time_brt |-> NoTimeBrt,
     version |-> None]
NoResponse == [status |-> 0, text |-> None, json |-> NoPayload]
\* PlainTextResponse("ok", status_code=200)
HealthzResponseNewline == [status |-> 200, text |-> <<"ok", " ">>, json |-> NoPayload]
HealthzResponse == [status |-> 200, text |-> Str("ok"), json |-> NoPayload]
\* What the framework answers without entering a handler, and when a handler raises.
ErrorResponse(code) == [status |-> code, text |-> None, json |-> NoPayload]

\* The "instancia" object of the payload.
InstanciaNoPlaceholders(public_ip, private_ip_, instance_id, az) ==
    [ip_publico_vm |-> public_ip,
     ip_privado_vm |-> private_ip_,
     instance_id |-> instance_id,
     availability_zone |-> az]
Instancia(public_ip, private_ip_, instance_id, az) ==
    [ip_publico_vm |-> OrElse(public_ip, Str("indisponivel")),
     ip_privado_vm |-> private_ip_,
     instance_id |-> OrElse(instance_id, Str("desconhecido")),
     availability_zone |-> OrElse(az, Str("desconhecida"))]

\* payload = {...}; return JSONResponse(payload).  ping_ms (a perf_counter
\* difference) is not modelled and "mensagem" is abbreviated.
RootResponse(req, host_, scheme_, public_ip, private_ip_, instance_id, az, now, local) ==
    [status |-> 200, text |-> None,
     json |-> [ok |-> TRUE,
               mensagem |-> Str("Teste de Load Balancing da AWS"),
               acesso |-> [dns_usado |-> host_,
                           esquema |-> scheme_,
                           metodo |-> req.method,
                           path |-> req.path,
                           ip_cliente |-> IpCliente(req)],
               instancia |-> Instancia(public_ip, private_ip_, instance_id, az),
               server_time_utc |-> ServerTimeUtc(now),
               server_time_brt |-> ServerTimeBrt(now, local),
               version |-> Str("1.0.0")]]

\* The attribute root fetches in its i-th call of imds_get.
AttrPaths == {"public-ipv4", "local-ipv4", "instance-id", "placement/availability-zone"}
AttrPathRepeated(i) ==
    CASE i = 1 -> "public-ipv4"
      [] i = 2 -> "local-ipv4"
      [] i = 3 -> "local-ipv4"
      [] OTHER -> "placement/availability-zone"
AttrPath(i) ==
    CASE i = 1 -> "public-ipv4"
      [] i = 2 -> "local-ipv4"
      [] i = 3 -> "instance-id"
      [] OTHER -> "placement/availability-zone"
NumFetches == 4

\* --------------------------------------------------------------------- state
Req == 1..NumRequests

VARIABLES
    deployment,   \* how the network answers calls to the metadata service
    localOffset,  \* UTC offset (hours) of the time zone configured on the host
    clock,        \* the UTC wall clock, in hours
    request,      \* request[r]: the inbound request r
    pc,           \* pc[r]: "closed", "arrived", "put" / "get" (suspended in
                  \* imds_get on that await), "done"
    idx,          \* idx[r]: which of root's four imds_get calls is running
    host,         \* root's local variable host
    scheme,       \* root's local variable scheme
    hdr,          \* the token header of the GET being awaited (None: no header)
    putOut,       \* how the token PUT of the running imds_get call ended
    ret,          \* ret[r]: the values root's completed imds_get calls returned
    private_ip,   \* root's local variable private_ip
    last,         \* last[r]: record of the imds_get call that has just returned
                  \* (NoCall once a later await of r has resolved)
    calls,        \* calls[r][path]: number of imds_get(path) calls
    puts,         \* puts[r][path]: token PUTs issued by imds_get(path)
    gets,         \* gets[r][path]: metadata GETs issued by imds_get(path)
    dns,          \* dns[r]: calls of get_private_ip_fallback
    resp          \* resp[r]: the response sent (NoResponse while none is)

env == <<deployment, localOffset, clock, request>>
vars == <<deployment, localOffset, clock, request, pc, idx, host, scheme, hdr,
          putOut, ret, private_ip, last, calls, puts, gets, dns, resp>>

NoCall == [path |-> "-", put |-> NotIssued, hdr |-> None, get |-> NotIssued, ret |-> None]
Zero == [p \in AttrPaths |-> 0]

\* The state after construction: `live` requests have arrived and are not yet
\* routed; the remaining slots stay closed.
InitWith(deps, offsets, clocks, reqs, live) ==
    /\ deployment \in deps
    /\ localOffset \in offsets
    /\ clock \in clocks
    /\ \E q \in [1..live -> reqs] :
           request = [r \in Req |-> IF r <= live THEN q[r] ELSE Quiet]
    /\ pc = [r \in Req |-> IF r <= live THEN "arrived" ELSE "closed"]
    /\ idx = [r \in Req |-> 0]
    /\ host = [r \in Req |-> None]
    /\ scheme = [r \in Req |-> None]
    /\ hdr = [r \in Req |-> None]
    /\ putOut = [r \in Req |-> NotIssued]
    /\ ret = [r \in Req |-> <<>>]
    /\ private_ip = [r \in Req |-> None]
    /\ last = [r \in Req |-> NoCall]
    /\ calls = [r \in Req |-> Zero]
    /\ puts = [r \in Req |-> Zero]
    /\ gets = [r \in Req |-> Zero]
    /\ dns = [r \in Req |-> 0]
    /\ resp = [r \in Req |-> NoResponse]

\* One request, any behaviour of the metadata service.
Init == InitWith({"unknown"}, {0}, {37}, PlainRequests, 1)
\* One request, any combination of proxy headers.
InitAccess == InitWith({"outside_aws", "ec2"}, {0}, {37}, ProxiedRequests, 1)
\* Several requests in flight at once.
InitLive == InitWith({"outside_aws", "ec2"}, {0}, {37}, PlainRequests, NumRequests)
\* One request, any clock and any host time zone.
InitClock == InitWith({"outside_aws", "ec2"}, LocalOffsets, Clocks, PlainRequests, 1)

\* ------------------------------------------------------------------- actions
\* The framework answers a request no route accepts.
Reject(r) ==
    /\ pc[r] = "arrived"
    /\ Route(request[r].method, request[r].path) \in {"404", "405"}
    /\ resp' = [resp EXCEPT ![r] =
                   IF Route(request[r].method, request[r].path) = "405"
                   THEN ErrorResponse(405) ELSE ErrorResponse(404)]
    /\ pc' = [pc EXCEPT ![r] = "done"]
    /\ UNCHANGED <<env, idx, host, scheme, hdr, putOut, ret, private_ip, last,
                   calls, puts, gets, dns>>

\* async def healthz()
Healthz(r) ==
    /\ pc[r] = "arrived"
    /\ Route(request[r].method, request[r].path) = "healthz"
    /\ resp' = [resp EXCEPT ![r] = HealthzResponse]
    /\ pc' = [pc EXCEPT ![r] = "done"]
    /\ UNCHANGED <<env, idx, host, scheme, hdr, putOut, ret, private_ip, last,
                   calls, puts, gets, dns>>

\* async def root(request), up to its first suspension: host and scheme are
\* computed, imds_get("public-ipv4") is entered and its token PUT is issued.
RootStart(r) ==
    /\ pc[r] = "arrived"
    /\ Route(request[r].method, request[r].path) = "root"
    /\ host' = [host EXCEPT ![r] = Host(request[r])]
    /\ scheme' = [scheme EXCEPT ![r] = Scheme(request[r])]
    /\ idx' = [idx EXCEPT ![r] = 1]
    /\ calls' = [calls EXCEPT ![r][AttrPath(1)] = @ + 1]
    /\ puts' = [puts EXCEPT ![r][AttrPath(1)] = @ + 1]
    /\ pc' = [pc EXCEPT ![r] = "put"]
    /\ UNCHANGED <<env, hdr, putOut, ret, private_ip, last, gets, dns, resp>>

\* imds_get returned v to root (or raised, v = Raised) in its call number
\* idx[r]; root runs on to its next suspension or to its return.  po and go are
\* the outcomes of the call's PUT and GET, h the token header the GET carried,
\* fo the outcome of the name resolution, should the fallback be called.
FetchReturn(r, v, po, go, h, fo) ==
    LET i == idx[r]
        fallback == i = 2 /\ v # Raised /\ UsesFallback(v)
        rets == Append(ret[r], v)
        priv == IF i = 2
                THEN (IF fallback THEN get_private_ip_fallback(fo) ELSE v)
                ELSE private_ip[r]
    IN
    /\ ret' = [ret EXCEPT ![r] = rets]
    /\ last' = [last EXCEPT ![r] =
                   [path |-> AttrPath(i), put |-> po, hdr |-> h, get |-> go, ret |-> v]]
    /\ hdr' = [hdr EXCEPT ![r] = None]
    /\ putOut' = [putOut EXCEPT ![r] = NotIssued]
    /\ private_ip' = [private_ip EXCEPT ![r] = priv]
    /\ dns' = [dns EXCEPT ![r] = IF fallback THEN @ + 1 ELSE @]
    /\ IF v = Raised
       THEN /\ resp' = [resp EXCEPT ![r] = ErrorResponse(500)]
            /\ pc' = [pc EXCEPT ![r] = "done"]
            /\ UNCHANGED <<idx, calls, puts>>
       ELSE IF i < NumFetches
       THEN /\ idx' = [idx EXCEPT ![r] = i + 1]
            /\ calls' = [calls EXCEPT ![r][AttrPath(i + 1)] = @ + 1]
            /\ puts' = [puts EXCEPT ![r][AttrPath(i + 1)] = @ + 1]
            /\ pc' = [pc EXCEPT ![r] = "put"]
            /\ UNCHANGED resp
       ELSE /\ resp' = [resp EXCEPT ![r] =
                           RootResponse(request[r], host[r], scheme[r], rets[1], priv,
                                        rets[3], rets[4], clock, localOffset)]
            /\ pc' = [pc EXCEPT ![r] = "done"]
            /\ UNCHANGED <<idx, calls, puts>>
    /\ UNCHANGED <<env, host, scheme, gets>>

\* The name resolutions that can matter to the step r takes: the resolver is
\* only ever called while root evaluates its second assignment.
Resolutions(r) == IF idx[r] = 2 THEN ResolverOutcomes ELSE {Raise("gaierror")}

\* await client.put(IMDS_TOKEN_URL, ...) resolves with outcome o.
PutDone(r) ==
    /\ pc[r] = "put"
    /\ \E o \in Outcomes(deployment), fo \in Resolutions(r) :
           IF AfterPut(o) = "get"
           THEN /\ hdr' = [hdr EXCEPT ![r] = TokenHeaders(TokenOf(o))]
                /\ putOut' = [putOut EXCEPT ![r] = o]
                /\ gets' = [gets EXCEPT ![r][AttrPath(idx[r])] = @ + 1]
                /\ last' = [last EXCEPT ![r] = NoCall]
                /\ pc' = [pc EXCEPT ![r] = "get"]
                /\ UNCHANGED <<env, idx, host, scheme, ret, private_ip,
                               calls, puts, dns, resp>>
           ELSE FetchReturn(r, IF AfterPut(o) = "return" THEN None ELSE Raised,
                            o, NotIssued, None, fo)

\* await client.get(f"{IMDS_BASE}/meta-data/{path}", ...) resolves with outcome o.
GetDone(r) ==
    /\ pc[r] = "get"
    /\ \E o \in Outcomes(deployment), fo \in Resolutions(r) :
           FetchReturn(r, ImdsGetResult(o), putOut[r], o, hdr[r], fo)

Next == \E r \in Req : Reject(r) \/ Healthz(r) \/ RootStart(r) \/ PutDone(r) \/ GetDone(r)

Spec == Init /\ [][Next]_vars
SpecAccess == InitAccess /\ [][Next]_vars
SpecLive == InitLive /\ [][Next]_vars
SpecClock == InitClock /\ [][Next]_vars

\* ---------------------------------------------------------------- properties
IsGet(r) == request[r].method = Str("GET")
ToRoot(r) == request[r].path = Str("/")
ToHealthz(r) == request[r].path = Str("/healthz")
Answered(r) == pc[r] = "done"
Suspended(r) == pc[r] \in {"put", "get"}
Outbound(r) ==
    dns[r] + puts[r]["public-ipv4"] + puts[r]["local-ipv4"] + puts[r]["instance-id"]
    + puts[r]["placement/availability-zone"]
    + gets[r]["public-ipv4"] + gets[r]["local-ipv4"] + gets[r]["instance-id"]
    + gets[r]["placement/availability-zone"]
MetadataCalls(r) == Outbound(r) - dns[r]
Ok200(o) == o.kind = "response" /\ o.status = 200
\* t is s without its leading and trailing whitespace.
IsTrimOf(t, s) ==
    \E i \in 0..Len(s), j \in 0..Len(s) :
        /\ i + j <= Len(s)
        /\ t = SubSeq(s, i + 1, Len(s) - j)
        /\ \A k \in 1..i : s[k] \in Whitespace
        /\ \A k \in (Len(s) - j + 1)..Len(s) : s[k] \in Whitespace
        /\ t = <<>> \/ (t[1] \notin Whitespace /\ t[Len(t)] \notin Whitespace)

\* C1 as stated: every answered request to /healthz, of whatever method, got
\* status 200 and body "ok" and made no outbound call.
C1_AnyHealthzRequestOk ==
    \A r \in Req :
        Answered(r) /\ ToHealthz(r) =>
            resp[r].status = 200 /\ resp[r].text = <<"ok">> /\ Outbound(r) = 0

\* C1 amended: every GET request to /healthz can be answered at once whatever
\* the other requests are doing, is answered with status 200 and body "ok", and
\* makes no token PUT, no metadata GET and no name resolution; a request to
\* /healthz with another method is answered 405 without any outbound call.
C1_GetHealthzOk ==
    \A r \in Req :
        /\ pc[r] = "arrived" /\ ToHealthz(r) /\ IsGet(r) => ENABLED Healthz(r)
        /\ Answered(r) /\ ToHealthz(r) =>
               /\ Outbound(r) = 0
               /\ IsGet(r) => resp[r].status = 200 /\ resp[r].text = <<"ok">>
               /\ ~IsGet(r) => resp[r].status = 405

\* C1 witness: /healthz was answered 200 "ok" while a root request is
\* suspended on a call to an unreachable metadata service.
C1_Witness ==
    \E r, q \in Req :
        /\ Answered(r) /\ ToHealthz(r) /\ IsGet(r) /\ resp[r].status = 200
        /\ Suspended(q) /\ deployment = "outside_aws"

\* C2: whatever the four fetches returned, an answered GET / has status 200 and
\* no null "instancia" field: each field is the fetched value or its
\* placeholder (the resolver's string for ip_privado_vm), and the placeholder
\* whenever the fetch returned None.
ValueOr(field, fetched, placeholders) ==
    /\ field # None
    /\ field = fetched \/ field \in placeholders
    /\ fetched = None => field \in placeholders
    /\ Truthy(fetched) => field = fetched
C2_InstanciaNeverNull ==
    \A r \in Req :
        Answered(r) /\ ToRoot(r) /\ IsGet(r) =>
            /\ resp[r].status = 200
            /\ Len(ret[r]) = 4
            /\ LET i == resp[r].json.instancia IN
               /\ ValueOr(i.ip_publico_vm, ret[r][1], {<<"indisponivel">>})
               /\ ValueOr(i.ip_privado_vm, ret[r][2], {<<"10.0.0.5">>, <<"desconhecido">>})
               /\ ValueOr(i.instance_id, ret[r][3], {<<"desconhecido">>})
               /\ ValueOr(i.availability_zone, ret[r][4], {<<"desconhecida">>})

\* C2 witness: GET / answered 200 with all four fetches absent and every
\* placeholder in place.
C2_Witness ==
    \E r \in Req :
        /\ Answered(r) /\ ToRoot(r) /\ IsGet(r) /\ resp[r].status = 200
        /\ ret[r] = <<None, None, None, None>>
        /\ resp[r].json.instancia =
               [ip_publico_vm |-> <<"indisponivel">>, ip_privado_vm |-> <<"desconhecido">>,
                instance_id |-> <<"desconhecido">>, availability_zone |-> <<"desconhecida">>]

\* C3: imds_get never raises (no call record holds Raised and no request is
\* answered 500); it returns the trimmed body of the GET exactly when the GET
\* completed with status 200, and None in every other case, whatever the PUT did.
C3_ImdsGetContract ==
    \A r \in Req :
        /\ resp[r].status # 500
        /\ last[r] # NoCall =>
               /\ last[r].ret # Raised
               /\ Ok200(last[r].get) =>
                      last[r].ret # None /\ IsTrimOf(last[r].ret, last[r].get.text)
               /\ ~Ok200(last[r].get) => last[r].ret = None

\* C3 witness: a GET answered 200 with a body that has whitespace to trim,
\* after a PUT that timed out.
C3_Witness ==
    \E r \in Req :
        /\ last[r].put = Raise("ConnectTimeout")
        /\ last[r].get = Response(200, <<" ", "a">>)
        /\ last[r].ret = <<"a">>

\* C4 as stated: whenever the token PUT did not return 200, for any reason,
\* the GET was still issued, without token header; and a GET carries the
\* header exactly when the PUT returned 200 with a token.
C4_AnyPutFailureStillGets ==
    \A r \in Req :
        last[r] # NoCall =>
            /\ ~Ok200(last[r].put) => last[r].get # NotIssued /\ last[r].hdr = None
            /\ last[r].hdr # None <=> Ok200(last[r].put) /\ Strip(last[r].put.text) # <<>>

\* C4 amended: when the PUT ends with a non-200 status or an httpx.HTTPError
\* the GET is issued without token header; when the PUT raises any other
\* exception no GET is issued and imds_get returns None; the GET carries the
\* header, holding the trimmed token, exactly when the PUT returned 200 with a
\* body that is not blank.
PutSoftFailure(o) ==
    (o.kind = "response" /\ o.status # 200) \/ (o.kind = "exception" /\ o.exc \in HTTPErrors)
PutHardFailure(o) == o.kind = "exception" /\ o.exc \notin HTTPErrors
HeaderMatches(h, o) ==
    /\ h # None <=> Ok200(o) /\ Strip(o.text) # <<>>
    /\ h # None => h = Strip(o.text)
C4_PutFailureStillGets ==
    \A r \in Req :
        /\ pc[r] = "get" =>
               /\ ~PutHardFailure(putOut[r])
               /\ HeaderMatches(hdr[r], putOut[r])
               /\ gets[r][AttrPath(idx[r])] = 1
        /\ last[r] # NoCall =>
               /\ PutSoftFailure(last[r].put) =>
                      last[r].get # NotIssued /\ last[r].hdr = None
               /\ PutHardFailure(last[r].put) =>
                      last[r].get = NotIssued /\ last[r].ret = None
                      /\ gets[r][last[r].path] = 0
               /\ last[r].get # NotIssued => HeaderMatches(last[r].hdr, last[r].put)

\* C4 witness: the PUT failed with a connection error and the GET, issued
\* without token, returned a value.
C4_Witness ==
    \E r \in Req :
        /\ last[r].put = Raise("ConnectError")
        /\ last[r].hdr = None
        /\ Ok200(last[r].get) /\ last[r].ret = <<"a">>

\* C5 as stated: a request to / of any method is answered 200 with the
\* payload, whose "metodo" is the request's method.
C5_AnyMethodRoot ==
    \A r \in Req :
        Answered(r) /\ ToRoot(r) =>
            resp[r].status = 200 /\ resp[r].json.acesso.metodo = request[r].method

\* C5 amended: / answers a GET request with status 200 and the payload, whose
\* "metodo" is "GET"; a request to / with any other method is answered 405,
\* without payload and without running the handler.
C5_GetOnlyRoot ==
    \A r \in Req :
        Answered(r) /\ ToRoot(r) =>
            /\ IsGet(r) => /\ resp[r].status = 200
                           /\ resp[r].json.ok
                           /\ resp[r].json.acesso.metodo = <<"GET">>
                           /\ resp[r].json.acesso.path = <<"/">>
            /\ ~IsGet(r) => /\ resp[r].status = 405
                            /\ resp[r].json = NoPayload
                            /\ Outbound(r) = 0

\* C5 witness: a GET / was answered 200 with metodo "GET".
C5_Witness ==
    \E r \in Req :
        /\ Answered(r) /\ ToRoot(r) /\ IsGet(r)
        /\ resp[r].status = 200 /\ resp[r].json.acesso.metodo = <<"GET">>

\* C6 as stated: with an x-forwarded-for header of any value, the empty string
\* included, ip_cliente is that value; without the header it is the peer
\* address, and null when there is no peer either.
C6_AnyForwardedFor ==
    \A r \in Req :
        Answered(r) /\ resp[r].status = 200 /\ ToRoot(r) =>
            LET ip == resp[r].json.acesso.ip_cliente IN
            /\ request[r].xff # None => ip = request[r].xff
            /\ request[r].xff = None => ip = request[r].client

\* C6 amended: with a non-empty x-forwarded-for header ip_cliente is that
\* value; with the header absent or empty it is the peer address, and null
\* when there is no peer.
C6_NonEmptyForwardedFor ==
    \A r \in Req :
        Answered(r) /\ resp[r].status = 200 /\ ToRoot(r) =>
            LET ip == resp[r].json.acesso.ip_cliente IN
            /\ request[r].xff \notin {None, <<>>} => ip = request[r].xff
            /\ request[r].xff \in {None, <<>>} => ip = request[r].client

\* C6 witness: a request with both a forwarded-for header and a peer address
\* was answered with the header's value.
C6_Witness ==
    \E r \in Req :
        /\ Answered(r) /\ resp[r].status = 200 /\ ToRoot(r)
        /\ request[r].xff = <<"1.2.3.4">> /\ request[r].client = <<"9.9.9.9">>
        /\ resp[r].json.acesso.ip_cliente = <<"1.2.3.4">>

\* C7 as stated: with x-forwarded-host (x-forwarded-proto) of any value,
\* dns_usado (esquema) is that value; without the header dns_usado is the
\* request's own host and esquema its own scheme.
RawHost(req) == IF req.hostHdr \in {None, <<>>} THEN req.urlHostname ELSE req.hostHdr
C7_AnyForwardedHostProto ==
    \A r \in Req :
        Answered(r) /\ resp[r].status = 200 /\ ToRoot(r) =>
            LET a == resp[r].json.acesso IN
            /\ request[r].xfh # None => a.dns_usado = request[r].xfh
            /\ request[r].xfh = None => a.dns_usado = RawHost(request[r])
            /\ request[r].xfp # None => a.esquema = request[r].xfp
            /\ request[r].xfp = None => a.esquema = request[r].urlScheme

\* C7 amended: with a non-empty x-forwarded-host (x-forwarded-proto) dns_usado
\* (esquema) is that value; with the header absent or empty dns_usado is the
\* Host header, or the URL's host name when that is absent or empty, and
\* esquema is the URL's scheme; neither field depends on the other header.
C7_NonEmptyForwardedHostProto ==
    \A r \in Req :
        Answered(r) /\ resp[r].status = 200 /\ ToRoot(r) =>
            LET a == resp[r].json.acesso IN
            /\ request[r].xfh \notin {None, <<>>} => a.dns_usado = request[r].xfh
            /\ request[r].xfh \in {None, <<>>} => a.dns_usado = RawHost(request[r])
            /\ request[r].xfp \notin {None, <<>>} => a.esquema = request[r].xfp
            /\ request[r].xfp \in {None, <<>>} => a.esquema = request[r].urlScheme

\* C7 witness: forwarded host present and forwarded proto absent: dns_usado
\* is the forwarded host and esquema the URL's scheme.
C7_Witness ==
    \E r \in Req :
        /\ Answered(r) /\ resp[r].status = 200 /\ ToRoot(r)
        /\ request[r].xfh = <<"lb.example">> /\ request[r].xfp = None
        /\ request[r].hostHdr = <<"h.example">> /\ request[r].urlScheme = <<"ws">>
        /\ resp[r].json.acesso.dns_usado = <<"lb.example">>
        /\ resp[r].json.acesso.esquema = <<"ws">>

\* C8: no attribute is fetched twice and no fetch issues a second PUT or GET
\* (at most 8 metadata calls per request); a root response exists only once
\* each of the four attributes has been fetched exactly once and no call is
\* in flight.
C8_NoRetries ==
    \A r \in Req :
        /\ \A p \in AttrPaths :
               calls[r][p] <= 1 /\ puts[r][p] <= calls[r][p] /\ gets[r][p] <= puts[r][p]
        /\ MetadataCalls(r) <= 8
        /\ ToRoot(r) /\ IsGet(r) /\ resp[r] # NoResponse =>
               /\ \A p \in AttrPaths : calls[r][p] = 1 /\ puts[r][p] = 1
               /\ Len(ret[r]) = 4
               /\ ~Suspended(r)

\* C8 witness: a root request answered after exactly 8 metadata calls, the
\* last of which failed.
C8_Witness ==
    \E r \in Req :
        /\ Answered(r) /\ ToRoot(r) /\ IsGet(r) /\ resp[r].status = 200
        /\ MetadataCalls(r) = 8
        /\ last[r].get = Raise("ConnectTimeout")

\* C9: server_time_brt is the UTC instant rendered three hours earlier on the
\* wall clock, the same instant as server_time_utc, whatever the host's time zone.
C9_BrtIsUtcMinusThree ==
    \A r \in Req :
        Answered(r) /\ resp[r].status = 200 /\ ToRoot(r) =>
            LET h == clock - 3
                j == resp[r].json
            IN
            /\ j.server_time_utc = [day |-> clock \div 24, hour |-> clock % 24, suffix |-> "Z"]
            /\ j.server_time_brt.day = h \div 24
            /\ j.server_time_brt.hour12 = (IF h % 12 = 0 THEN 12 ELSE h % 12)
            /\ j.server_time_brt.ampm = (IF h % 24 < 12 THEN "AM" ELSE "PM")
            /\ j.server_time_brt.suffix = "UTC-3"

\* C10 as stated: ip_privado_vm is the local-ipv4 value whenever that fetch
\* returned a value, of any body, and the resolver is called only when the
\* fetch returned None.
C10_FallbackOnlyOnNone ==
    \A r \in Req :
        /\ dns[r] > 0 => Len(ret[r]) >= 2 /\ ret[r][2] = None
        /\ Answered(r) /\ resp[r].status = 200 /\ ToRoot(r) /\ ret[r][2] # None =>
               resp[r].json.instancia.ip_privado_vm = ret[r][2]

\* C10 amended: ip_privado_vm is the local-ipv4 value whenever that fetch
\* returned a non-empty value, and then the resolver is not called; the
\* resolver is called, once, exactly when the fetch returned None or the empty
\* string; it never raises and ip_privado_vm is then the resolved address or
\* "desconhecido".
C10_FallbackOnFalsy ==
    \A r \in Req :
        /\ resp[r].status # 500
        /\ dns[r] <= 1
        /\ dns[r] = 1 <=> Len(ret[r]) >= 2 /\ ret[r][2] \in {None, <<>>}
        /\ Len(ret[r]) >= 2 =>
               IF ret[r][2] \in {None, <<>>}
               THEN private_ip[r] \in {<<"10.0.0.5">>, <<"desconhecido">>}
               ELSE private_ip[r] = ret[r][2]
        /\ Answered(r) /\ resp[r].status = 200 /\ ToRoot(r) =>
               resp[r].json.instancia.ip_privado_vm = private_ip[r]

\* C10 witness: the local-ipv4 fetch returned the empty string, the resolver
\* was called and failed, and the response carries "desconhecido".
C10_Witness ==
    \E r \in Req :
        /\ Answered(r) /\ resp[r].status = 200 /\ ToRoot(r)
        /\ ret[r][2] = <<>> /\ dns[r] = 1
        /\ resp[r].json.instancia.ip_privado_vm = <<"desconhecido">>

====
